---- MODULE Spec2Model ----
(***************************************************************************)
(* Push-to-talk low-level keyboard hook of apps/desktop/src-tauri/src/     *)
(* lib.rs: the statics PTT_VK, PTT_PRESSED, HOOK_RUNNING, HOOK_THREAD_ID,  *)
(* the commands start_ptt_hook / stop_ptt_hook / check_key_pressed, the    *)
(* hook thread spawned by start_ptt_hook and the callback ll_keyboard_proc.*)
(* Every atomic load, store and swap of the source is one step, so that    *)
(* the interleavings of command threads, hook threads and callbacks are    *)
(* the ones the relaxed atomics allow.                                     *)
(***************************************************************************)
EXTENDS Integers, Sequences, FiniteSets, TLC

VARIABLES
    target_os,       \* cfg(target_os): "windows" or "other", fixed per build
    APP_HANDLE,      \* OnceLock<AppHandle>: TRUE once set by setup
    PTT_VK,          \* AtomicI32
    PTT_PRESSED,     \* AtomicBool
    HOOK_RUNNING,    \* AtomicBool
    HOOK_THREAD_ID,  \* AtomicU32
    c_pc,            \* command thread -> position inside the command it runs
    c_key,           \* command thread -> key_code argument of the running call
    c_tid,           \* command thread -> `tid` local of stop_ptt_hook
    c_rx,            \* command thread -> hook thread whose channel it receives on
    w_pc,            \* hook thread -> position inside the spawned closure
    w_hnd,           \* hook thread -> its `hook` local (-1 before it is bound)
    w_hook,          \* hook thread -> the OS has its hook installed
    w_quit,          \* hook thread -> WM_QUIT is posted to its message queue
    chan,            \* hook thread -> what was sent on its mpsc channel
    cb,              \* hook thread -> locals of its running ll_keyboard_proc call,
                     \* with the press its raw event belongs to (ep)
    keys_down,       \* keys physically held (what GetAsyncKeyState reads)
    emitted,         \* sequence of events emitted through the AppHandle, each
                     \* with the key and the press of the raw event it is for
    act,             \* the step last taken, with what it exchanged with the OS
    phase,           \* position of the history in the pattern stop(); start(k)
    last_cmd,        \* the command that returned last
    n_calls,         \* commands invoked so far
    n_events,        \* callback invocations so far
    raw,             \* the raw events of the configured key, counted
    pump_err         \* GetMessageW has reported an error to some hook thread

statics == <<PTT_VK, PTT_PRESSED, HOOK_RUNNING, HOOK_THREAD_ID>>
cvars   == <<c_pc, c_key, c_tid, c_rx>>
wvars   == <<w_pc, w_hnd, w_hook, w_quit, chan, cb>>
ghosts  == <<emitted, phase, last_cmd, n_calls, n_events, raw, pump_err>>
vars    == <<target_os, APP_HANDLE, statics, cvars, wvars, keys_down, ghosts, act>>

----------------------------------------------------------------------------
(* Bounds of the model.                                                    *)
MaxWorkers == 2     \* hook threads ever spawned
MaxCalls   == 3     \* command invocations of the one command thread
MaxEvents  == 2     \* callback invocations
MaxRaceCalls  == 3  \* command invocations of racing command threads
MaxRaw     == 5     \* raw events of one run of the callback alone
MaxFairCalls == 2   \* command invocations where termination is checked
MaxHoldCalls  == 3  \* command invocations around one key
MaxHoldEvents == 4  \* raw events of that key
MaxAllCalls == 2    \* start and stop invocations beside every other step

Callers  == {1, 2}
Workers  == 1..MaxWorkers
KeyCodes == {-65, 0, 32, 65} \* key_code arguments: negative, disabled, VK_SPACE, 'A'
VkCodes  == {32, 65}        \* kb.vk_code of raw events

(* win32 constants                                                         *)
WM_KEYDOWN    == 256
WM_KEYUP      == 257
WM_SYSKEYDOWN == 260
WM_SYSKEYUP   == 261
WM_QUIT       == 18

WParams  == {WM_KEYDOWN, WM_KEYUP, WM_SYSKEYDOWN, WM_SYSKEYUP, 258}
Codes    == {0, -1}         \* HC_ACTION, and a code the callback must pass on
LResults == {0, 1}          \* what CallNextHookEx returns

I16(x) == IF x >= 32768 THEN x - 65536 ELSE x

NoCb == [code |-> 0, w_param |-> 0, l_param |-> [vk_code |-> 0], vk |-> 0, ep |-> 0]

Step(name, who) == [name |-> name, who |-> who, io |-> <<>>]
StepIO(name, who, io) == [name |-> name, who |-> who, io |-> io]

Init ==
    /\ target_os \in {"windows", "other"}
    /\ APP_HANDLE = FALSE
    /\ PTT_VK = 0
    /\ PTT_PRESSED = FALSE
    /\ HOOK_RUNNING = FALSE
    /\ HOOK_THREAD_ID = 0
    /\ c_pc = [c \in Callers |-> "idle"]
    /\ c_key = [c \in Callers |-> 0]
    /\ c_tid = [c \in Callers |-> 0]
    /\ c_rx = [c \in Callers |-> 0]
    /\ w_pc = [w \in Workers |-> "unborn"]
    /\ w_hnd = [w \in Workers |-> -1]
    /\ w_hook = [w \in Workers |-> FALSE]
    /\ w_quit = [w \in Workers |-> FALSE]
    /\ chan = [w \in Workers |-> "empty"]
    /\ cb = [w \in Workers |-> NoCb]
    /\ keys_down = {}
    /\ emitted = <<>>
    /\ act = Step("Init", 0)
    /\ phase = [st |-> "other", key |-> 0]
    /\ last_cmd = [op |-> "none", key |-> 0, ret |-> FALSE, early |-> FALSE]
    /\ n_calls = 0
    /\ n_events = 0
    /\ raw = [last |-> "none", episodes |-> 0, releases |-> 0, repeats |-> 0, strays |-> 0,
              held |-> {}, eps |-> [k \in VkCodes |-> 0]]
    /\ pump_err = FALSE

(* run(): setup stores the AppHandle before any command is dispatched.     *)
Setup ==
    /\ ~APP_HANDLE
    /\ APP_HANDLE' = TRUE
    /\ act' = Step("Setup", 0)
    /\ UNCHANGED <<target_os, statics, cvars, wvars, keys_down, ghosts>>

----------------------------------------------------------------------------
(* The hook thread: the closure start_ptt_hook spawns.                     *)

(* as GetCurrentThreadId, with one identifier for every thread             *)
GetCurrentThreadId_Zero(w) == 0

(* GetCurrentThreadId(): the identifier of hook thread w.                  *)
GetCurrentThreadId(w) == w

(* SetWindowsHookExW returns the handle, 0 when the OS refuses.            *)
HookHandles(w) == {0, w}

(* as AfterInstall, with the branches exchanged                            *)
AfterInstall_Inverted(hook) == IF hook = 0 THEN "set_running" ELSE "send_false"

(* as AfterInstall, without the test of the handle                         *)
AfterInstall_Unchecked(hook) == "set_running"

(* `if hook == 0 { tx.send(false); return }`, else HOOK_RUNNING is stored. *)
AfterInstall(hook) == IF hook = 0 THEN "send_false" ELSE "set_running"

(* What GetMessageW returns for what it retrieved.                         *)
GetMessageW(got) ==
    CASE got = "error" -> -1
      [] got = "quit" -> 0
      [] OTHER -> 1

(* as PumpContinues, with the loop `while GetMessageW(..) != 0 {}`         *)
PumpContinues_NonZero(r) == r # 0

(* `while GetMessageW(..) > 0 {}`                                          *)
PumpContinues(r) == r > 0

(* A thread owns a message queue from its first USER call on               *)
(* (SetWindowsHookExW here) until it exits; PostThreadMessageW fails       *)
(* for a thread without one.                                               *)
HasQueue(w) ==
    /\ w \in DOMAIN w_pc
    /\ w_pc[w] \notin {"unborn", "spawned", "install", "terminated"}

InCallback(w) == w_pc[w] \in {"cb_down", "cb_up", "cb_emit_down", "cb_emit_up", "cb_next"}
InPump(w) == w_pc[w] = "pumping" \/ InCallback(w)

WUnchanged == UNCHANGED <<target_os, APP_HANDLE, cvars, keys_down>>

(* let tid = GetCurrentThreadId(); HOOK_THREAD_ID.store(tid)               *)
WorkerStoreTid(w) ==
    /\ w_pc[w] = "spawned"
    /\ HOOK_THREAD_ID' = GetCurrentThreadId(w)
    /\ w_pc' = [w_pc EXCEPT ![w] = "install"]
    /\ act' = Step("WorkerStoreTid", w)
    /\ WUnchanged
    /\ UNCHANGED <<PTT_VK, PTT_PRESSED, HOOK_RUNNING, w_hnd, w_hook, w_quit, chan, cb, ghosts>>

(* let hook = SetWindowsHookExW(WH_KEYBOARD_LL, ll_keyboard_proc, 0, 0)    *)
WorkerInstall(w) ==
    /\ w_pc[w] = "install"
    /\ \E hook \in HookHandles(w) :
        /\ w_hnd' = [w_hnd EXCEPT ![w] = hook]
        /\ w_hook' = [w_hook EXCEPT ![w] = (hook # 0)]
        /\ w_pc' = [w_pc EXCEPT ![w] = AfterInstall(hook)]
        /\ act' = StepIO("WorkerInstall", w, <<hook>>)
    /\ WUnchanged
    /\ UNCHANGED <<statics, w_quit, chan, cb, ghosts>>

(* tx.send(false); return                                                  *)
WorkerSendFalse(w) ==
    /\ w_pc[w] = "send_false"
    /\ chan' = [chan EXCEPT ![w] = "false"]
    /\ w_pc' = [w_pc EXCEPT ![w] = "terminated"]
    /\ act' = Step("WorkerSendFalse", w)
    /\ WUnchanged
    /\ UNCHANGED <<statics, w_hnd, w_hook, w_quit, cb, ghosts>>

(* HOOK_RUNNING.store(true)                                                *)
WorkerSetRunning(w) ==
    /\ w_pc[w] = "set_running"
    /\ HOOK_RUNNING' = TRUE
    /\ w_pc' = [w_pc EXCEPT ![w] = "send_true"]
    /\ act' = Step("WorkerSetRunning", w)
    /\ WUnchanged
    /\ UNCHANGED <<PTT_VK, PTT_PRESSED, HOOK_THREAD_ID, w_hnd, w_hook, w_quit, chan, cb, ghosts>>

(* tx.send(true), then the closure enters the message pump                 *)
WorkerSendTrue(w) ==
    /\ w_pc[w] = "send_true"
    /\ chan' = [chan EXCEPT ![w] = "true"]
    /\ w_pc' = [w_pc EXCEPT ![w] = "pumping"]
    /\ act' = Step("WorkerSendTrue", w)
    /\ WUnchanged
    /\ UNCHANGED <<statics, w_hnd, w_hook, w_quit, cb, ghosts>>

(* One GetMessageW call of the pump: it retrieves WM_QUIT when one is      *)
(* posted, some other thread message, or reports an error.                 *)
WorkerPump(w) ==
    /\ w_pc[w] = "pumping"
    /\ \E got \in (IF w_quit[w] THEN {"quit"} ELSE {}) \cup {"other", "error"} :
        LET r == GetMessageW(got) IN
        /\ w_quit' = [w_quit EXCEPT ![w] = IF got = "quit" THEN FALSE ELSE @]
        /\ w_pc' = [w_pc EXCEPT ![w] = IF PumpContinues(r) THEN "pumping" ELSE "unhook"]
        /\ pump_err' = (pump_err \/ got = "error")
        /\ act' = StepIO("WorkerPump", w, <<got, r>>)
    /\ WUnchanged
    /\ UNCHANGED <<statics, w_hnd, w_hook, chan, cb, emitted, phase, last_cmd, n_calls, n_events, raw>>

(* UnhookWindowsHookEx(hook)                                               *)
WorkerUnhook(w) ==
    /\ w_pc[w] = "unhook"
    /\ w_hook' = [w_hook EXCEPT ![w] = FALSE]
    /\ w_pc' = [w_pc EXCEPT ![w] = "clear_running"]
    /\ act' = Step("WorkerUnhook", w)
    /\ WUnchanged
    /\ UNCHANGED <<statics, w_hnd, w_quit, chan, cb, ghosts>>

(* HOOK_RUNNING.store(false); the thread ends                              *)
WorkerClearRunning(w) ==
    /\ w_pc[w] = "clear_running"
    /\ HOOK_RUNNING' = FALSE
    /\ w_pc' = [w_pc EXCEPT ![w] = "terminated"]
    /\ act' = Step("WorkerClearRunning", w)
    /\ WUnchanged
    /\ UNCHANGED <<PTT_VK, PTT_PRESSED, HOOK_THREAD_ID, w_hnd, w_hook, w_quit, chan, cb, ghosts>>

----------------------------------------------------------------------------
(* The callback ll_keyboard_proc(code, w_param, l_param), run by the OS on *)
(* the hook thread while that thread waits in GetMessageW. l_param points  *)
(* to the KBDLLHOOKSTRUCT of the event.                                    *)

Events == [code : Codes, w_param : WParams, l_param : [vk_code : VkCodes]]

(* as KeyMatches, without the comparison of the key codes                  *)
KeyMatches_Any(vk, kb) == vk > 0

(* `vk > 0 && kb.vk_code == vk as u32`: the cast is only reached for a     *)
(* positive vk, which it leaves as it is                                   *)
KeyMatches(vk, kb) == vk > 0 /\ kb.vk_code = vk

(* the arms of `match w_param`                                             *)
EventClass(w_param) ==
    CASE w_param \in {WM_KEYDOWN, WM_SYSKEYDOWN} -> "down"
      [] w_param \in {WM_KEYUP, WM_SYSKEYUP} -> "up"
      [] OTHER -> "other"

(* Where the callback goes after `if code >= 0` and the load of PTT_VK:    *)
(* to one of the two swaps, or straight to CallNextHookEx.                 *)
CbTarget(code, vk, kb, w_param, handle) ==
    IF code >= 0 /\ KeyMatches(vk, kb) /\ handle
    THEN CASE EventClass(w_param) = "down" -> "cb_down"
           [] EventClass(w_param) = "up" -> "cb_up"
           [] OTHER -> "cb_next"
    ELSE "cb_next"

(* as EmitsDown, without the guard against key-repeat                      *)
EmitsDown_Unguarded(old) == TRUE

(* as EmitsUp, without the test of the value swapped out                   *)
EmitsUp_Unguarded(old) == TRUE

(* `if !PTT_PRESSED.swap(true)` / `if PTT_PRESSED.swap(false)`             *)
EmitsDown(old) == ~old
EmitsUp(old) == old

(* CallNextHookEx(0, code, w_param, l_param)                               *)
NextHookArgs(c) == <<0, c.code, c.w_param, c.l_param>>

(* as CallbackResult, with the event reported as handled                   *)
CallbackResult_Swallow(r) == 1

(* the callback's value is the value of the CallNextHookEx expression      *)
CallbackResult(r) == r

(* The keyboard as the raw stream shows it: the keys held (held) and, for  *)
(* each key, its presses so far (eps). A down event of a key already held  *)
(* is an auto-repeat of the same press.                                    *)
Physical(r, ev) ==
    LET k == ev.l_param.vk_code IN
    IF ev.code < 0 THEN r
    ELSE CASE ev.w_param \in {WM_KEYDOWN, WM_SYSKEYDOWN} ->
                [r EXCEPT !.held = @ \cup {k},
                          !.eps[k] = @ + (IF k \in r.held THEN 0 ELSE 1)]
           [] ev.w_param \in {WM_KEYUP, WM_SYSKEYUP} ->
                [r EXCEPT !.held = @ \ {k}]
           [] OTHER -> r

(* The raw stream of the key `key`, counted as it is delivered: a press    *)
(* episode is a down event after an up or the start, a repeat a down event *)
(* after a down, a release an up event after a down, a stray any other up. *)
RawAfter(r, ev, key) ==
    LET p == Physical(r, ev) IN
    IF ev.code >= 0 /\ key > 0 /\ ev.l_param.vk_code = key
    THEN CASE ev.w_param \in {WM_KEYDOWN, WM_SYSKEYDOWN} ->
                [p EXCEPT !.last = "down",
                          !.episodes = @ + (IF r.last = "down" THEN 0 ELSE 1),
                          !.repeats = @ + (IF r.last = "down" THEN 1 ELSE 0)]
           [] ev.w_param \in {WM_KEYUP, WM_SYSKEYUP} ->
                [p EXCEPT !.last = "up",
                          !.releases = @ + (IF r.last = "down" THEN 1 ELSE 0),
                          !.strays = @ + (IF r.last = "down" THEN 0 ELSE 1)]
           [] OTHER -> p
    ELSE p

CbUnchanged == UNCHANGED <<target_os, APP_HANDLE, cvars, keys_down, w_hnd, w_hook, w_quit, chan>>

(* entry, `if code >= 0`, `PTT_VK.load()`, the key test and the match      *)
CbLoad(w, ev) ==
    /\ w_pc[w] = "pumping"
    /\ w_hook[w]
    /\ LET vk == IF ev.code >= 0 THEN PTT_VK ELSE 0 IN
        /\ cb' = [cb EXCEPT ![w] = [code |-> ev.code, w_param |-> ev.w_param,
                                    l_param |-> ev.l_param, vk |-> vk,
                                    ep |-> Physical(raw, ev).eps[ev.l_param.vk_code]]]
        /\ w_pc' = [w_pc EXCEPT ![w] =
                       CbTarget(ev.code, vk, ev.l_param, ev.w_param, APP_HANDLE)]
    /\ n_events' = n_events + 1
    /\ raw' = RawAfter(raw, ev, PTT_VK)
    /\ act' = StepIO("CbLoad", w, ev)
    /\ CbUnchanged
    /\ UNCHANGED <<statics, emitted, phase, last_cmd, n_calls, pump_err>>

(* PTT_PRESSED.swap(true)                                                  *)
CbSwapDown(w) ==
    /\ w_pc[w] = "cb_down"
    /\ PTT_PRESSED' = TRUE
    /\ w_pc' = [w_pc EXCEPT ![w] = IF EmitsDown(PTT_PRESSED) THEN "cb_emit_down" ELSE "cb_next"]
    /\ act' = Step("CbSwapDown", w)
    /\ CbUnchanged
    /\ UNCHANGED <<PTT_VK, HOOK_RUNNING, HOOK_THREAD_ID, cb, ghosts>>

(* PTT_PRESSED.swap(false)                                                 *)
CbSwapUp(w) ==
    /\ w_pc[w] = "cb_up"
    /\ PTT_PRESSED' = FALSE
    /\ w_pc' = [w_pc EXCEPT ![w] = IF EmitsUp(PTT_PRESSED) THEN "cb_emit_up" ELSE "cb_next"]
    /\ act' = Step("CbSwapUp", w)
    /\ CbUnchanged
    /\ UNCHANGED <<PTT_VK, HOOK_RUNNING, HOOK_THREAD_ID, cb, ghosts>>

(* handle.emit("ptt-hook-down", ()) / handle.emit("ptt-hook-up", ())       *)
CbEmit(w) ==
    /\ w_pc[w] \in {"cb_emit_down", "cb_emit_up"}
    /\ emitted' = Append(emitted,
          [sig |-> IF w_pc[w] = "cb_emit_down" THEN "ptt-hook-down" ELSE "ptt-hook-up",
           vk_code |-> cb[w].l_param.vk_code, episode |-> cb[w].ep])
    /\ w_pc' = [w_pc EXCEPT ![w] = "cb_next"]
    /\ act' = Step("CbEmit", w)
    /\ CbUnchanged
    /\ UNCHANGED <<statics, cb, phase, last_cmd, n_calls, n_events, raw, pump_err>>

(* CallNextHookEx(0, code, w_param, l_param), whose value the callback     *)
(* returns to the OS; the hook thread is back in GetMessageW.              *)
CbNext(w, r) ==
    /\ w_pc[w] = "cb_next"
    /\ act' = StepIO("CbNext", w,
                 [args |-> NextHookArgs(cb[w]), result |-> r, ret |-> CallbackResult(r)])
    /\ cb' = [cb EXCEPT ![w] = NoCb]
    /\ w_pc' = [w_pc EXCEPT ![w] = "pumping"]
    /\ CbUnchanged
    /\ UNCHANGED <<statics, ghosts>>

(* One step of the callback on hook thread w, for raw events of evs and    *)
(* CallNextHookEx results of rs, while fewer than max calls were made.     *)
ll_keyboard_proc(w, evs, rs, max) ==
    \/ \E ev \in evs : n_events < max /\ CbLoad(w, ev)
    \/ CbSwapDown(w)
    \/ CbSwapUp(w)
    \/ CbEmit(w)
    \/ \E r \in rs : CbNext(w, r)

----------------------------------------------------------------------------
(* The commands. A command thread runs one command at a time.              *)

Idle(c) == c_pc[c] = "idle"
OthersIdle(c) == \A d \in Callers \ {c} : Idle(d)
Spawned == {w \in Workers : w_pc[w] # "unborn"}
Starting == {c \in Callers : c_pc[c] \in {"st_pressed", "st_check"}}

(* the statics and the message queues, as one value                        *)
Shared == [vk |-> PTT_VK, pressed |-> PTT_PRESSED, running |-> HOOK_RUNNING,
           tid |-> HOOK_THREAD_ID, quit |-> w_quit]
NoSnap == [has |-> FALSE, prev |-> Shared, alone |-> FALSE]

CUnchanged == UNCHANGED <<target_os, APP_HANDLE, keys_down, w_hnd, w_hook, chan, cb,
                          emitted, n_events, raw, pump_err>>

(* the command returns: its locals are gone                                *)
Returned(c, op, ret, early) ==
    /\ last_cmd' = [op |-> op, key |-> c_key[c], ret |-> ret, early |-> early]
    /\ c_pc' = [c_pc EXCEPT ![c] = "idle"]
    /\ c_key' = [c_key EXCEPT ![c] = 0]
    /\ c_tid' = [c_tid EXCEPT ![c] = 0]
    /\ c_rx' = [c_rx EXCEPT ![c] = 0]

Running(ret) == [done |-> FALSE, ret |-> ret]
Done(ret) == [done |-> TRUE, ret |-> ret]

(* as RecvResult, taking every message for success                         *)
RecvResult_True(ch) == TRUE

(* rx.recv().unwrap_or(false): the value sent, false when the sender is    *)
(* dropped without a value                                                 *)
RecvResult(ch) ==
    CASE ch = "true" -> TRUE
      [] ch = "false" -> FALSE
      [] OTHER -> FALSE

(* as StartReturnsEarly, restarting the hook on every call                 *)
StartReturnsEarly_Never(running) == FALSE

(* `if HOOK_RUNNING.load() { return true }`                                *)
StartReturnsEarly(running) == running

(* PTT_VK.store(key_code)                                                  *)
StartStoreVk(c, k) ==
    /\ Idle(c)
    /\ APP_HANDLE
    /\ Cardinality(Spawned) + Cardinality(Starting) < MaxWorkers
    /\ PTT_VK' = k
    /\ c_pc' = [c_pc EXCEPT ![c] = "st_pressed"]
    /\ c_key' = [c_key EXCEPT ![c] = k]
    /\ n_calls' = n_calls + 1
    /\ phase' = IF phase.st = "stopped" /\ OthersIdle(c)
                THEN [st |-> "restarting", key |-> k]
                ELSE [st |-> "other", key |-> 0]
    /\ act' = StepIO("StartStoreVk", c, Running(FALSE))
    /\ CUnchanged
    /\ UNCHANGED <<PTT_PRESSED, HOOK_RUNNING, HOOK_THREAD_ID, c_tid, c_rx, w_pc, w_quit, last_cmd>>

StartPhase(ret) ==
    IF phase.st = "restarting" /\ ret
    THEN [st |-> "restarted", key |-> phase.key]
    ELSE [st |-> "other", key |-> 0]

(* PTT_PRESSED.store(false); off Windows the body is `false`               *)
StartStorePressed(c) ==
    /\ c_pc[c] = "st_pressed"
    /\ PTT_PRESSED' = FALSE
    /\ IF target_os = "windows"
       THEN /\ c_pc' = [c_pc EXCEPT ![c] = "st_check"]
            /\ act' = StepIO("StartStorePressed", c, Running(FALSE))
            /\ UNCHANGED <<c_key, c_tid, c_rx, phase, last_cmd>>
       ELSE /\ Returned(c, "start", FALSE, FALSE)
            /\ act' = StepIO("StartStorePressed", c, Done(FALSE))
            /\ phase' = StartPhase(FALSE)
    /\ CUnchanged
    /\ UNCHANGED <<PTT_VK, HOOK_RUNNING, HOOK_THREAD_ID, w_pc, w_quit, n_calls>>

(* HOOK_RUNNING.load(): return true, or create the channel and spawn the   *)
(* hook thread                                                             *)
StartCheck(c) ==
    /\ c_pc[c] = "st_check"
    /\ IF StartReturnsEarly(HOOK_RUNNING)
       THEN /\ Returned(c, "start", TRUE, TRUE)
            /\ act' = StepIO("StartCheck", c, Done(TRUE))
            /\ phase' = StartPhase(TRUE)
            /\ UNCHANGED w_pc
       ELSE LET w == Cardinality(Spawned) + 1 IN
            /\ w_pc' = [w_pc EXCEPT ![w] = "spawned"]
            /\ c_rx' = [c_rx EXCEPT ![c] = w]
            /\ c_pc' = [c_pc EXCEPT ![c] = "st_recv"]
            /\ act' = StepIO("StartCheck", c, Running(FALSE))
            /\ UNCHANGED <<c_key, c_tid, phase, last_cmd>>
    /\ CUnchanged
    /\ UNCHANGED <<statics, w_quit, n_calls>>

(* rx.recv().unwrap_or(false)                                              *)
StartRecv(c) ==
    /\ c_pc[c] = "st_recv"
    /\ chan[c_rx[c]] # "empty" \/ w_pc[c_rx[c]] = "terminated"
    /\ Returned(c, "start", RecvResult(chan[c_rx[c]]), FALSE)
    /\ phase' = StartPhase(RecvResult(chan[c_rx[c]]))
    /\ act' = StepIO("StartRecv", c, Done(RecvResult(chan[c_rx[c]])))
    /\ CUnchanged
    /\ UNCHANGED <<statics, w_pc, w_quit, n_calls>>

(* One step of start_ptt_hook(key_code) on command thread c, for key codes *)
(* of keys, invoked while fewer than max commands were.                    *)
start_ptt_hook(c, keys, max) ==
    \/ \E k \in keys : n_calls < max /\ StartStoreVk(c, k)
    \/ StartStorePressed(c)
    \/ StartCheck(c)
    \/ StartRecv(c)

StopSteps == {"StopStoreVk", "StopStorePressed", "StopCheck", "StopLoadTid", "StopPost"}

(* What a stop_ptt_hook call carries through its steps for as long as no  *)
(* other thread takes a step (alone): the state a directly preceding       *)
(* stop_ptt_hook call, itself run alone, left (has, prev).                 *)
StopIO(c) ==
    IF act.name \in StopSteps /\ act.who = c /\ ~Idle(c) THEN act.io ELSE NoSnap

StopPhase ==
    IF phase.st = "stopping"
    THEN [st |-> "stopped", key |-> phase.key]
    ELSE [st |-> "other", key |-> 0]

(* as StopPosts, posting whether or not a hook thread runs                 *)
StopPosts_Always(running) == TRUE

(* `if HOOK_RUNNING.load() { .. PostThreadMessageW .. }`                   *)
StopPosts(running) == running

(* PostThreadMessageW(tid, WM_QUIT, 0, 0): the queues afterwards           *)
PostThreadMessageW(tid, msg) ==
    IF HasQueue(tid) /\ msg = WM_QUIT THEN [w_quit EXCEPT ![tid] = TRUE] ELSE w_quit

(* PTT_VK.store(0)                                                         *)
StopStoreVk(c) ==
    /\ Idle(c)
    /\ APP_HANDLE
    /\ PTT_VK' = 0
    /\ c_pc' = [c_pc EXCEPT ![c] = "sp_pressed"]
    /\ n_calls' = n_calls + 1
    /\ phase' = IF OthersIdle(c)
                THEN [st |-> "stopping", key |-> PTT_VK]
                ELSE [st |-> "other", key |-> 0]
    /\ UNCHANGED <<PTT_PRESSED, HOOK_RUNNING, HOOK_THREAD_ID, c_key, c_tid, c_rx, w_pc, w_quit, last_cmd>>
    /\ act' = StepIO("StopStoreVk", c,
                 [has |-> act.name \in StopSteps /\ Idle(act.who) /\ act.io.alone,
                  prev |-> Shared, alone |-> TRUE])
    /\ CUnchanged

(* PTT_PRESSED.store(false); off Windows the command ends here             *)
StopStorePressed(c) ==
    /\ c_pc[c] = "sp_pressed"
    /\ PTT_PRESSED' = FALSE
    /\ IF target_os = "windows"
       THEN /\ c_pc' = [c_pc EXCEPT ![c] = "sp_check"]
            /\ UNCHANGED <<c_key, c_tid, c_rx, phase, last_cmd>>
       ELSE /\ Returned(c, "stop", FALSE, FALSE)
            /\ phase' = StopPhase
    /\ UNCHANGED <<PTT_VK, HOOK_RUNNING, HOOK_THREAD_ID, w_pc, w_quit, n_calls>>
    /\ act' = StepIO("StopStorePressed", c, StopIO(c))
    /\ CUnchanged

(* HOOK_RUNNING.load()                                                     *)
StopCheck(c) ==
    /\ c_pc[c] = "sp_check"
    /\ IF StopPosts(HOOK_RUNNING)
       THEN /\ c_pc' = [c_pc EXCEPT ![c] = "sp_tid"]
            /\ UNCHANGED <<c_key, c_tid, c_rx, phase, last_cmd>>
       ELSE /\ Returned(c, "stop", FALSE, FALSE)
            /\ phase' = StopPhase
    /\ UNCHANGED <<statics, w_pc, w_quit, n_calls>>
    /\ act' = StepIO("StopCheck", c, StopIO(c))
    /\ CUnchanged

(* let tid = HOOK_THREAD_ID.load()                                         *)
StopLoadTid(c) ==
    /\ c_pc[c] = "sp_tid"
    /\ c_tid' = [c_tid EXCEPT ![c] = HOOK_THREAD_ID]
    /\ c_pc' = [c_pc EXCEPT ![c] = "sp_post"]
    /\ UNCHANGED <<statics, c_key, c_rx, w_pc, w_quit, n_calls, phase, last_cmd>>
    /\ act' = StepIO("StopLoadTid", c, StopIO(c))
    /\ CUnchanged

(* PostThreadMessageW(tid, WM_QUIT, 0, 0)                                  *)
StopPost(c) ==
    /\ c_pc[c] = "sp_post"
    /\ w_quit' = PostThreadMessageW(c_tid[c], WM_QUIT)
    /\ Returned(c, "stop", FALSE, FALSE)
    /\ phase' = StopPhase
    /\ UNCHANGED <<statics, w_pc, n_calls>>
    /\ act' = StepIO("StopPost", c, StopIO(c))
    /\ CUnchanged

stop_ptt_hook(c, max) ==
    \/ n_calls < max /\ StopStoreVk(c)
    \/ StopStorePressed(c)
    \/ StopCheck(c)
    \/ StopLoadTid(c)
    \/ StopPost(c)

(* GetAsyncKeyState(v_key) as i16: the top bit says the key is down, the   *)
(* lowest that it was pressed since the previous call.                     *)
GetAsyncKeyState(down, since) ==
    I16((IF down THEN 32768 ELSE 0) + (IF since THEN 1 ELSE 0))

(* as KeyStateResult, testing the whole state word                         *)
KeyStateResult_NonZero(state) == IF state # 0 THEN 1 ELSE 0

(* `if state < 0 { 1 } else { 0 }`                                         *)
KeyStateResult(state) == IF state < 0 THEN 1 ELSE 0

check_key_pressed(c, k) ==
    /\ Idle(c)
    /\ APP_HANDLE
    /\ \E since \in BOOLEAN :
        LET ret == IF target_os = "windows"
                   THEN KeyStateResult(GetAsyncKeyState(k \in keys_down, since))
                   ELSE -1 IN
        act' = StepIO("check_key_pressed", c, [key |-> k, ret |-> ret])
    /\ UNCHANGED <<target_os, APP_HANDLE, statics, cvars, wvars, keys_down, ghosts>>

(* The keyboard: a key goes down or up.                                    *)
Keyboard(k) ==
    /\ keys_down' = IF k \in keys_down THEN keys_down \ {k} ELSE keys_down \cup {k}
    /\ act' = StepIO("Keyboard", 0, <<k>>)
    /\ UNCHANGED <<target_os, APP_HANDLE, statics, cvars, wvars, ghosts>>

HookThread(w) ==
    \/ WorkerStoreTid(w)
    \/ WorkerInstall(w)
    \/ WorkerSendFalse(w)
    \/ WorkerSetRunning(w)
    \/ WorkerSendTrue(w)
    \/ WorkerPump(w)
    \/ WorkerUnhook(w)
    \/ WorkerClearRunning(w)

(* One command thread, the hook threads it spawns and their callbacks.     *)
HookEvents == {ev \in Events : ev.code = 0 /\ ev.w_param \in {WM_KEYDOWN, WM_KEYUP}}

Next ==
    \/ Setup
    \/ start_ptt_hook(1, VkCodes, MaxCalls)
    \/ stop_ptt_hook(1, MaxCalls)
    \/ \E w \in Workers : HookThread(w)
    \/ \E w \in Workers : ll_keyboard_proc(w, HookEvents, {0}, MaxEvents)

Spec == Init /\ [][Next]_vars

(* Command threads racing each other and the hook threads, with no key    *)
(* event arriving.                                                         *)
NextRace ==
    \/ Setup
    \/ \E c \in Callers : start_ptt_hook(c, VkCodes, MaxRaceCalls)
    \/ \E c \in Callers : stop_ptt_hook(c, MaxRaceCalls)
    \/ \E w \in Workers : HookThread(w)

SpecRace == Init /\ [][NextRace]_vars

(* The callback alone: one start_ptt_hook call, then raw events of every   *)
(* kind with no command in between.                                        *)
NextKeys ==
    \/ Setup
    \/ start_ptt_hook(1, KeyCodes, 1)
    \/ \E w \in Workers : HookThread(w)
    \/ \E w \in Workers : ll_keyboard_proc(w, Events, LResults, MaxRaw)

SpecKeys == Init /\ [][NextKeys]_vars

(* The polling command beside the keyboard and the life of the hook.       *)
NextPoll ==
    \/ Setup
    \/ start_ptt_hook(1, VkCodes, MaxCalls)
    \/ stop_ptt_hook(1, MaxCalls)
    \/ \E w \in Workers : HookThread(w)
    \/ \E c \in Callers, k \in KeyCodes : check_key_pressed(c, k)
    \/ \E k \in VkCodes : Keyboard(k)

SpecPoll == Init /\ [][NextPoll]_vars

(* One key, pressed, held and released, while commands for that key are   *)
(* invoked.                                                                *)
HoldEvents == {ev \in HookEvents : ev.l_param.vk_code = 32}

NextHold ==
    \/ Setup
    \/ start_ptt_hook(1, {32}, MaxHoldCalls)
    \/ stop_ptt_hook(1, MaxHoldCalls)
    \/ \E w \in Workers : HookThread(w)
    \/ \E w \in Workers : ll_keyboard_proc(w, HoldEvents, {0}, MaxHoldEvents)

SpecHold == Init /\ [][NextHold]_vars

(* Every operation of the program side by side: start and stop commands,  *)
(* the polling command on a thread of its own, hook threads and their      *)
(* callbacks.                                                              *)
NextAll ==
    \/ Setup
    \/ start_ptt_hook(1, {32}, MaxAllCalls)
    \/ stop_ptt_hook(1, MaxAllCalls)
    \/ check_key_pressed(2, 32)
    \/ \E w \in Workers : HookThread(w)
    \/ \E w \in Workers : ll_keyboard_proc(w, HookEvents, {0}, MaxEvents)

SpecAll == Init /\ [][NextAll]_vars

(* Scheduling. A thread that can take its next step takes it: each of the  *)
(* steps below is a store, a load, a send or an OS call that returns. Of   *)
(* the pump only the retrieval of a posted WM_QUIT is certain to happen:   *)
(* the queue hands over posted messages in order.                          *)
PumpQuit(w) == WorkerPump(w) /\ act'.io[1] = "quit"

WorkerProgress(w) ==
    \/ WorkerStoreTid(w)
    \/ WorkerInstall(w)
    \/ WorkerSendFalse(w)
    \/ WorkerSetRunning(w)
    \/ WorkerSendTrue(w)
    \/ PumpQuit(w)
    \/ WorkerUnhook(w)
    \/ WorkerClearRunning(w)

CommandProgress(c) ==
    \/ StartStorePressed(c)
    \/ StartCheck(c)
    \/ StartRecv(c)
    \/ StopStorePressed(c)
    \/ StopCheck(c)
    \/ StopLoadTid(c)
    \/ StopPost(c)

Fairness ==
    /\ \A w \in Workers : WF_vars(WorkerProgress(w))
    /\ \A c \in Callers : WF_vars(CommandProgress(c))

(* SpecRace with every thread scheduled.                                   *)
SpecRaceFair == Init /\ [][NextRace]_vars /\ Fairness

(* Fewer commands, racing and scheduled alike.                             *)
NextStart ==
    \/ Setup
    \/ \E c \in Callers : start_ptt_hook(c, VkCodes, MaxFairCalls)
    \/ \E c \in Callers : stop_ptt_hook(c, MaxFairCalls)
    \/ \E w \in Workers : HookThread(w)

SpecStartFair == Init /\ [][NextStart]_vars /\ Fairness


----------------------------------------------------------------------------
(* Properties.                                                             *)

Hooked == {w \in Workers : w_hook[w]}
AllIdle == \A c \in Callers : Idle(c)
Quiescent == \A w \in Workers : ~InCallback(w)
CountSig(seq, sig) == Cardinality({i \in 1..Len(seq) : seq[i].sig = sig})
StartSteps == {"StartStoreVk", "StartStorePressed", "StartCheck", "StartRecv"}

(* C1: under every interleaving of start and stop calls at most one hook   *)
(* thread has a hook installed.                                            *)
C1_AtMostOneHook == Cardinality(Hooked) <= 1

(* C2: with a fixed key and no command in between, whenever no callback is *)
(* in progress the emitted "ptt-hook-down" events are as many as the press *)
(* episodes of the raw stream and the emitted "ptt-hook-up" events as many *)
(* as its up events that follow a down; repeats and stray ups emit nothing.*)
C2_RepeatSuppression ==
    Quiescent =>
        /\ CountSig(emitted, "ptt-hook-down") = raw.episodes
        /\ CountSig(emitted, "ptt-hook-up") = raw.releases
        /\ Len(emitted) = raw.episodes + raw.releases

C2_Witness ==
    /\ Quiescent
    /\ raw.episodes = 1 /\ raw.repeats = 2 /\ raw.releases = 1 /\ raw.strays = 1
    /\ CountSig(emitted, "ptt-hook-down") = 1
    /\ CountSig(emitted, "ptt-hook-up") = 1

(* C3: a start_ptt_hook(k2) that finds HOOK_RUNNING true returns true,     *)
(* spawns no hook thread, leaves HOOK_RUNNING and HOOK_THREAD_ID as they   *)
(* are and leaves PTT_VK = k2; a callback invocation that begins after it  *)
(* returned, before another command, loads k2 and reacts to k2 only, and   *)
(* what an invocation emits is for the key it loaded.                      *)
C3_Step ==
    /\ (act'.name = "StartCheck" /\ HOOK_RUNNING) =>
          /\ act'.io = Done(TRUE)
          /\ c_pc'[act'.who] = "idle"
          /\ w_pc' = w_pc
          /\ HOOK_RUNNING' = HOOK_RUNNING
          /\ HOOK_THREAD_ID' = HOOK_THREAD_ID
          /\ PTT_VK' = c_key[act'.who]
    /\ (act'.name = "CbLoad" /\ AllIdle /\ last_cmd.op = "start" /\ last_cmd.early
           /\ act'.io.code >= 0) =>
          /\ cb'[act'.who].vk = last_cmd.key
          /\ w_pc'[act'.who] # "cb_next" => act'.io.l_param.vk_code = last_cmd.key
    /\ act'.name = "CbEmit" =>
          /\ emitted' = Append(emitted, emitted'[Len(emitted')])
          /\ emitted'[Len(emitted')].vk_code = cb[act'.who].vk

C3_StartWhileRunning == [][C3_Step]_vars

C3_Witness ==
    /\ act.name = "CbEmit"
    /\ AllIdle /\ last_cmd.op = "start" /\ last_cmd.early /\ last_cmd.key = 65
    /\ Len(emitted) = 2
    /\ emitted[1].vk_code = 32 /\ emitted[2].vk_code = 65
    /\ Cardinality(Spawned) = 1

(* C4: once stop_ptt_hook() directly followed by start_ptt_hook(k2) has    *)
(* returned true, and while no later command is invoked and GetMessageW    *)
(* reports no error, some hook thread has its hook installed and is in the *)
(* pump.                                                                   *)
C4_RestartKeepsHook ==
    (phase.st = "restarted" /\ ~pump_err) => \E w \in Hooked : InPump(w)

(* C5: after stop_ptt_hook() has returned and until the next command is    *)
(* invoked, nothing is emitted for the key configured before the stop.     *)
C5_QuietAfterStop ==
    [][(phase.st = "stopped" /\ emitted' # emitted)
          => emitted'[Len(emitted')].vk_code # phase.key]_vars

(* C6: stop_ptt_hook() never writes HOOK_RUNNING or HOOK_THREAD_ID; when   *)
(* it finds HOOK_RUNNING false it returns and posts nothing; as the first  *)
(* command ever it changes no static and no queue; and run directly after  *)
(* a stop_ptt_hook() call, with no step of another thread in between, it   *)
(* leaves the statics and the queues as that call left them.               *)
C6_Step ==
    /\ act'.name \in StopSteps =>
          /\ HOOK_RUNNING' = HOOK_RUNNING
          /\ HOOK_THREAD_ID' = HOOK_THREAD_ID
    /\ (act'.name \in StopSteps /\ ~HOOK_RUNNING) => w_quit' = w_quit
    /\ (act'.name = "StopCheck" /\ ~HOOK_RUNNING) => c_pc'[act'.who] = "idle"
    /\ (act'.name \in StopSteps /\ n_calls' = 1) => Shared' = Shared
    /\ (act'.name \in StopSteps /\ c_pc'[act'.who] = "idle" /\ act'.io.has) =>
          act'.io.prev = Shared'

C6_StopNoOp == [][C6_Step]_vars

C6_Witness ==
    /\ act.name = "StopCheck" /\ Idle(act.who) /\ act.io.has
    /\ ~HOOK_RUNNING
    /\ Spawned # {}

(* C7: a hook thread whose SetWindowsHookExW returned 0 holds no hook, is  *)
(* never in the pump, never writes HOOK_RUNNING, sends false and ends, and *)
(* the start_ptt_hook call receiving from it returns false.                *)
Refused(w) == w_hnd[w] = 0
WorkerSteps == {"WorkerStoreTid", "WorkerInstall", "WorkerSendFalse", "WorkerSetRunning",
                "WorkerSendTrue", "WorkerPump", "WorkerUnhook", "WorkerClearRunning"}

C7_Step ==
    /\ \A w \in Workers : w_hnd'[w] = 0 =>
          /\ ~w_hook'[w]
          /\ w_pc'[w] \in {"send_false", "terminated"}
    /\ \A w \in Workers : (Refused(w) /\ act'.who = w /\ act'.name \in WorkerSteps) =>
          /\ HOOK_RUNNING' = HOOK_RUNNING
          /\ chan'[w] = "false"
          /\ w_pc'[w] = "terminated"
    /\ (act'.name = "StartRecv" /\ Refused(c_rx[act'.who])) => act'.io = Done(FALSE)

C7_InstallFailure == [][C7_Step]_vars

C7_Witness ==
    /\ act.name = "StartRecv" /\ act.io = Done(FALSE)
    /\ \E w \in Workers : Refused(w) /\ w_pc[w] = "terminated" /\ ~w_hook[w]

(* C8: off Windows no step of start_ptt_hook changes a static or spawns a  *)
(* hook thread, and the call returns false.                                *)
C8_NoSideEffects ==
    [][(target_os = "other" /\ act'.name \in StartSteps) =>
          /\ statics' = statics
          /\ w_pc' = w_pc
          /\ c_pc'[act'.who] = "idle" => act'.io = Done(FALSE)]_vars

(* C9: check_key_pressed(key_code) changes nothing, and its value depends  *)
(* on the platform and the keyboard alone: 1 exactly when the key is down  *)
(* and 0 otherwise on Windows, -1 elsewhere.                               *)
C9_Step ==
    act'.name = "check_key_pressed" =>
        /\ UNCHANGED <<statics, cvars, wvars, keys_down, ghosts>>
        /\ act'.io.ret = IF target_os = "windows"
                         THEN (IF act'.io.key \in keys_down THEN 1 ELSE 0)
                         ELSE -1

C9_Stateless == [][C9_Step]_vars

C9_Witness ==
    /\ act.name = "check_key_pressed" /\ act.io.ret = 1
    /\ Hooked # {} /\ HOOK_RUNNING

(* C10: every callback invocation ends with one CallNextHookEx call, given *)
(* the code, w_param and l_param the invocation received, and returns its  *)
(* value; an invocation with a negative code emits nothing and leaves      *)
(* PTT_PRESSED as it is.                                                   *)
CbStates == {"cb_down", "cb_up", "cb_emit_down", "cb_emit_up", "cb_next"}
CbSteps == {"CbLoad", "CbSwapDown", "CbSwapUp", "CbEmit", "CbNext"}

C10_Step ==
    /\ act'.name = "CbLoad" =>
          /\ w_pc'[act'.who] \in CbStates
          /\ cb'[act'.who].code = act'.io.code
          /\ cb'[act'.who].w_param = act'.io.w_param
          /\ cb'[act'.who].l_param = act'.io.l_param
          /\ act'.io.code < 0 =>
                /\ w_pc'[act'.who] = "cb_next"
                /\ PTT_PRESSED' = PTT_PRESSED
                /\ emitted' = emitted
    /\ \A w \in Workers :
          /\ (InCallback(w) /\ w_pc'[w] \in CbStates) => cb'[w] = cb[w]
          /\ (InCallback(w) /\ w_pc'[w] \notin CbStates) =>
                act'.name = "CbNext" /\ act'.who = w
          /\ (InCallback(w) /\ cb[w].code < 0 /\ act'.who = w /\ act'.name \in CbSteps) =>
                PTT_PRESSED' = PTT_PRESSED /\ emitted' = emitted
    /\ act'.name = "CbNext" =>
          /\ act'.io.args = <<0, cb[act'.who].code, cb[act'.who].w_param, cb[act'.who].l_param>>
          /\ act'.io.ret = act'.io.result
          /\ w_pc'[act'.who] = "pumping"

C10_AlwaysForwards == [][C10_Step]_vars

C10_Witness ==
    /\ act.name = "CbNext"
    /\ act.io.args[2] < 0
    /\ act.io.result = 1 /\ act.io.ret = 1

(* C11: stop_ptt_hook() takes its steps whatever the hook thread does, and *)
(* once it has loaded HOOK_RUNNING == true, with every thread scheduled    *)
(* and unless a step of start_ptt_hook follows, eventually no hook is      *)
(* installed.                                                              *)
StopSawRunning == act.name = "StopCheck" /\ c_pc[act.who] = "sp_tid"

C11_StopTearsDown ==
    StopSawRunning ~> (Hooked = {} \/ act.name \in StartSteps)

(* C12: whenever HOOK_RUNNING is true, HOOK_THREAD_ID names a hook thread  *)
(* that lives, whose SetWindowsHookExW succeeded and whose hook is         *)
(* installed, so that a WM_QUIT posted to HOOK_THREAD_ID reaches the       *)
(* thread holding the hook.                                                *)
Live(w) == w \in Spawned /\ w_pc[w] # "terminated"

C12_RunningImpliesOwner ==
    HOOK_RUNNING => /\ Live(HOOK_THREAD_ID)
                    /\ w_hnd[HOOK_THREAD_ID] > 0
                    /\ \A w \in Hooked : w = HOOK_THREAD_ID

(* C20: a hook thread waiting in the pump with its hook installed finds    *)
(* HOOK_RUNNING true and HOOK_THREAD_ID equal to its own identifier.       *)
C20_NoOrphanHook ==
    \A w \in Workers :
        (InPump(w) /\ w_hook[w]) =>
            HOOK_RUNNING /\ HOOK_THREAD_ID = GetCurrentThreadId(w)

(* C13: every start_ptt_hook call returns. A call that spawned a hook      *)
(* thread waits on the channel only; the hook thread has sent true or      *)
(* false before it is in the pump or ended, the call returns the value     *)
(* sent, and with every thread scheduled each call in progress ends.       *)
StartPcs == {"st_pressed", "st_check", "st_recv"}

C13_Step ==
    /\ \A w \in Workers :
          (InPump(w)' \/ w_pc'[w] \in {"unhook", "clear_running", "terminated"}) =>
              chan'[w] \in {"true", "false"}
    /\ \A w \in Workers : chan[w] # "empty" => chan'[w] = chan[w]
    /\ act'.name = "StartRecv" =>
          /\ chan[c_rx[act'.who]] \in {"true", "false"}
          /\ act'.io = Done(chan[c_rx[act'.who]] = "true")
          /\ c_pc'[act'.who] = "idle"
    /\ \A c \in Callers :
          (c_pc[c] = "st_recv" /\ c_pc'[c] # "st_recv") =>
              act'.name = "StartRecv" /\ act'.who = c

C13_StartTerminates ==
    /\ [][C13_Step]_vars
    /\ \A c \in Callers : (c_pc[c] \in StartPcs) ~> Idle(c)

C13_Witness ==
    /\ act.name = "StartRecv" /\ act.io = Done(TRUE)
    /\ \E w \in Workers : w_pc[w] = "pumping" /\ chan[w] = "true" /\ w_hook[w]
    /\ \E c \in Callers : c_pc[c] = "st_recv"

(* C14: a callback invocation that loads a PTT_VK that is not positive or  *)
(* is not the event's vk_code goes straight to CallNextHookEx: it emits    *)
(* nothing and leaves PTT_PRESSED as it is, whatever the event and         *)
(* whatever PTT_PRESSED holds; and once start_ptt_hook was called with a   *)
(* key code that is not positive, nothing is ever emitted.                 *)
Unmatched(vk, kb) == vk <= 0 \/ vk # kb.vk_code

C14_Step ==
    /\ (act'.name = "CbLoad" /\ Unmatched(PTT_VK, act'.io.l_param)) =>
          /\ w_pc'[act'.who] = "cb_next"
          /\ PTT_PRESSED' = PTT_PRESSED
          /\ emitted' = emitted
    /\ \A w \in Workers :
          (InCallback(w) /\ Unmatched(cb[w].vk, cb[w].l_param)
               /\ act'.who = w /\ act'.name \in CbSteps) =>
              /\ act'.name = "CbNext"
              /\ PTT_PRESSED' = PTT_PRESSED
              /\ emitted' = emitted
    /\ (last_cmd.op = "start" /\ last_cmd.key <= 0) => emitted' = emitted

C14_DisabledOrOtherKey == [][C14_Step]_vars

C14_Witness ==
    /\ PTT_PRESSED /\ Len(emitted) = 1
    /\ \E w \in Workers :
          /\ w_pc[w] = "cb_next"
          /\ cb[w].vk = 32 /\ cb[w].l_param.vk_code = 65
          /\ EventClass(cb[w].w_param) = "up"

(* C15: no two "ptt-hook-down" events are emitted for the same press of a  *)
(* key (a down event and the auto-repeats that follow it until the key's   *)
(* up event), whatever commands are invoked while the key is held.         *)
C15_OneDownPerPress ==
    \A i, j \in 1..Len(emitted) :
        (/\ i < j
         /\ emitted[i].sig = "ptt-hook-down" /\ emitted[j].sig = "ptt-hook-down"
         /\ emitted[i].vk_code = emitted[j].vk_code) =>
            emitted[i].episode # emitted[j].episode

(* C19: in the sequence of emitted events a "ptt-hook-up" is never the     *)
(* first and never directly follows a "ptt-hook-up", whatever commands     *)
(* reset PTT_PRESSED in between.                                           *)
C19_UpFollowsDown ==
    \A i \in 1..Len(emitted) :
        emitted[i].sig = "ptt-hook-up" =>
            i > 1 /\ emitted[i - 1].sig = "ptt-hook-down"

C19_Witness ==
    /\ Len(emitted) = 3
    /\ emitted[1].sig = "ptt-hook-down"
    /\ emitted[2].sig = "ptt-hook-down"
    /\ emitted[3].sig = "ptt-hook-up"
    /\ raw.strays + raw.releases = 2
    /\ last_cmd.op \in {"start", "stop"}

(* C16: a GetMessageW call that retrieves a message other than WM_QUIT     *)
(* leaves the hook thread in the pump, its hook installed and HOOK_RUNNING *)
(* true; a hook thread leaves the pump only by a GetMessageW call that     *)
(* retrieves WM_QUIT or reports an error, and either one takes it out;     *)
(* out of the pump it calls UnhookWindowsHookEx, then stores HOOK_RUNNING  *)
(* false, then ends.                                                       *)
C16_Step ==
    \A w \in Workers :
        LET pumps == act'.name = "WorkerPump" /\ act'.who = w IN
        /\ (pumps /\ act'.io[1] = "other" /\ w_hook[w] /\ HOOK_RUNNING) =>
              w_pc'[w] = "pumping" /\ w_hook'[w] /\ HOOK_RUNNING'
        /\ (pumps /\ act'.io[1] \in {"quit", "error"}) =>
              w_pc'[w] = "unhook" /\ w_hook'[w] = w_hook[w]
        /\ (InPump(w) /\ ~InPump(w)') =>
              pumps /\ act'.io[1] \in {"quit", "error"}
        /\ (w_pc[w] = "unhook" /\ w_pc'[w] # "unhook") =>
              /\ act'.name = "WorkerUnhook" /\ act'.who = w
              /\ ~w_hook'[w]
              /\ HOOK_RUNNING' = HOOK_RUNNING
              /\ w_pc'[w] = "clear_running"
        /\ (w_pc[w] = "clear_running" /\ w_pc'[w] # "clear_running") =>
              /\ act'.name = "WorkerClearRunning" /\ act'.who = w
              /\ ~w_hook'[w]
              /\ ~HOOK_RUNNING'
              /\ w_pc'[w] = "terminated"
        /\ (w_pc[w] # "terminated" /\ w_pc'[w] = "terminated" /\ w_hnd[w] > 0) =>
              w_pc[w] = "clear_running"

C16_PumpLoop == [][C16_Step]_vars

C16_Witness ==
    /\ act.name = "WorkerClearRunning"
    /\ pump_err
    /\ ~HOOK_RUNNING /\ Hooked = {}
    /\ w_pc[act.who] = "terminated"
    /\ n_events > 0

(* C17: a start_ptt_hook call that finds HOOK_RUNNING false spawns exactly *)
(* one hook thread, a new one, and receives from it; a hook thread that    *)
(* sends true has stored HOOK_RUNNING true and its own id in               *)
(* HOOK_THREAD_ID; the call receiving true returns true and, the new       *)
(* thread being in the pump, finds both still so; and this holds again     *)
(* after earlier hook threads have ended.                                  *)
C17_Step ==
    /\ (act'.name = "StartCheck" /\ ~HOOK_RUNNING) =>
          \E w \in Workers :
              /\ w_pc[w] = "unborn" /\ w_pc'[w] = "spawned"
              /\ \A v \in Workers \ {w} : w_pc'[v] = w_pc[v]
              /\ c_rx'[act'.who] = w
              /\ c_pc'[act'.who] = "st_recv"
    /\ act'.name = "WorkerSendTrue" =>
          /\ HOOK_RUNNING'
          /\ HOOK_THREAD_ID' = act'.who
          /\ w_hook'[act'.who]
    /\ (act'.name = "StartRecv" /\ chan[c_rx[act'.who]] = "true") =>
          /\ act'.io = Done(TRUE)
          /\ InPump(c_rx[act'.who]) =>
                HOOK_RUNNING' /\ HOOK_THREAD_ID' = c_rx[act'.who]

C17_FreshWorker == [][C17_Step]_vars

C17_Witness ==
    /\ act.name = "StartRecv" /\ act.io = Done(TRUE)
    /\ w_pc[1] = "terminated" /\ w_hnd[1] > 0 /\ ~pump_err
    /\ InPump(2) /\ w_hook[2]
    /\ HOOK_RUNNING /\ HOOK_THREAD_ID = 2

(* C18: HOOK_RUNNING is written by hook threads only: it is stored true by *)
(* the step of a hook thread that follows its successful SetWindowsHookExW *)
(* (hook installed, handle not 0), and stored false by the last step of a  *)
(* hook thread, after UnhookWindowsHookEx; no step of start_ptt_hook,      *)
(* stop_ptt_hook, check_key_pressed or ll_keyboard_proc changes it.        *)
C18_Step ==
    /\ HOOK_RUNNING' # HOOK_RUNNING =>
          act'.name \in {"WorkerSetRunning", "WorkerClearRunning"}
    /\ act'.name = "WorkerSetRunning" =>
          /\ HOOK_RUNNING'
          /\ w_pc[act'.who] = "set_running"
          /\ w_hnd[act'.who] > 0 /\ w_hook[act'.who]
    /\ act'.name = "WorkerInstall" =>
          (w_pc'[act'.who] = "set_running") = (act'.io[1] # 0)
    /\ act'.name = "WorkerClearRunning" =>
          /\ ~HOOK_RUNNING'
          /\ ~w_hook[act'.who]
          /\ w_pc'[act'.who] = "terminated"
    /\ act'.name \in StartSteps \cup StopSteps \cup CbSteps \cup {"check_key_pressed", "Setup"} =>
          HOOK_RUNNING' = HOOK_RUNNING
    /\ act'.name \in WorkerSteps \ {"WorkerSetRunning", "WorkerClearRunning"} =>
          HOOK_RUNNING' = HOOK_RUNNING

C18_RunningWrittenByWorker == [][C18_Step]_vars

C18_Witness ==
    /\ act.name = "WorkerClearRunning" /\ ~HOOK_RUNNING
    /\ n_events > 0 /\ n_calls = 2
    /\ last_cmd.op = "stop"
    /\ Len(emitted) > 0

====
